---- MODULE Spec2Model ----
(***************************************************************************)
(* Model of run_milvus.py: the SemanticSearch facade (collection set-up,   *)
(* ingestion, search) and the interactive driver main(), running against   *)
(* an external vector store and an external embedding provider.            *)
(*                                                                         *)
(* Texts are sequences of one-character strings.  An embedding vector is   *)
(* abstracted to [len, val]: its length and one fixed-point coordinate.    *)
(* Distances are integers in units of 10^-5; printed scores are integers   *)
(* in units of 10^-4 (the four decimals of the ".4f" format).              *)
(***************************************************************************)
EXTENDS Integers, Sequences, FiniteSets, TLC

\* ---------------------------------------------------------------- bounds
MaxRuns == 2
MaxTurns == 2
MaxLimit == 3

\* ------------------------------------------------------ program constants
COLLECTION_NAME == "semantic_search_demo"
DIMENSION == 1536
DriverLimit == 2
NumDocs == 10

\* dimension of a collection of the same name left in the store by someone else
ForeignDimension == 768

\* ------------------------------------------------------------------ texts
Digits == <<"1", "2", "3", "4", "5", "6", "7", "8", "9", "0">>

DocText(n) == <<"t", Digits[n]>>

\* main(): the example documents, ids 1..10
documents == [n \in 1..NumDocs |-> [id |-> n, text |-> DocText(n)]]

IsSpace(c) == c = " "

LowerChar(c) ==
  CASE c = "Q" -> "q"
    [] c = "U" -> "u"
    [] c = "I" -> "i"
    [] c = "T" -> "t"
    [] c = "E" -> "e"
    [] c = "X" -> "x"
    [] OTHER -> c

\* str.lower()
Lower(s) == [k \in 1..Len(s) |-> LowerChar(s[k])]

RECURSIVE LStrip(_)
LStrip(s) == IF s # <<>> /\ IsSpace(Head(s)) THEN LStrip(Tail(s)) ELSE s

RECURSIVE RStrip(_)
RStrip(s) ==
  IF s # <<>> /\ IsSpace(s[Len(s)]) THEN RStrip(SubSeq(s, 1, Len(s) - 1)) ELSE s

\* str.strip()
Strip(s) == RStrip(LStrip(s))

QuitWords == { <<"q", "u", "i", "t">>, <<"e", "x", "i", "t">>, <<"q">> }

IsQuit_CaseSensitive(query) == query \in QuitWords

\* main(): query.lower() in ["quit", "exit", "q"]
IsQuit(query) == Lower(query) \in QuitWords

\* main(): not query
IsEmpty(query) == query = <<>>

\* lines the user may type at the prompt
Inputs ==
  { <<>>,
    <<" ">>,
    <<" ", " ">>,
    <<"q">>,
    <<"Q">>,
    <<" ", "q", " ">>,
    <<"q", "u", "i", "t">>,
    <<"Q", "u", "I", "t">>,
    <<"e", "x", "i", "t">>,
    <<"E", "X", "I", "T", " ">>,
    <<"q", "u", "i", "t", "s">>,
    <<"q", " ", "q">>,
    <<"t", "3">>,
    <<" ", "t", "7", " ">>,
    <<"T", "3">>,
    <<"x", "5">> }

\* queries and document lists a client may pass to the facade directly
Queries == { <<"t", "3">>, <<"t", "7">>, <<"x", "5">>, <<"q">> }

DocLists == { <<>>, SubSeq(documents, 1, 5), SubSeq(documents, 6, 7) }

\* ------------------------------------------------------ embedding provider
CharCode(c) ==
  CASE c = " " -> 2
    [] c = "q" -> 3
    [] c = "Q" -> 5
    [] c = "u" -> 7
    [] c = "i" -> 11
    [] c = "I" -> 13
    [] c = "t" -> 17
    [] c = "T" -> 19
    [] c = "e" -> 23
    [] c = "x" -> 29
    [] c = "X" -> 31
    [] c = "s" -> 37
    [] c = "1" -> 41
    [] c = "2" -> 43
    [] c = "3" -> 47
    [] c = "4" -> 53
    [] c = "5" -> 59
    [] c = "6" -> 61
    [] c = "7" -> 67
    [] c = "8" -> 71
    [] c = "9" -> 73
    [] c = "0" -> 79
    [] OTHER -> 83

RECURSIVE TextSum(_, _)
TextSum(s, k) == IF k > Len(s) THEN 0 ELSE k * CharCode(s[k]) + TextSum(s, k + 1)

\* the provider's deterministic text -> coordinate map
EmbVal(text) == TextSum(text, 1) % 97

\* _get_embedding: response.data[0].embedding, a vector of DIMENSION floats
GetEmbedding(text) == [len |-> DIMENSION, val |-> EmbVal(text)]

\* ------------------------------------------------------------ vector store
HasCollection(cols, name) == \E k \in 1..Len(cols) : cols[k].name = name

CollectionDimension(cols, name) ==
  LET k == CHOOSE j \in 1..Len(cols) : cols[j].name = name IN cols[k].dimension

CreateCollection(cols, name, dim) == Append(cols, [name |-> name, dimension |-> dim])

\* the store takes a record only into an existing collection of the vector's length
InsertAccepts(cols, name, vector) ==
  /\ HasCollection(cols, name)
  /\ vector.len = CollectionDimension(cols, name)

Insert(recs, data) == Append(recs, data)

Distance(a, b) == (a.val - b.val) * (a.val - b.val)

Hit(rec, qvec) ==
  [id |-> rec.id, distance |-> Distance(rec.vector, qvec), entity |-> [text |-> rec.text]]

\* index of the nearest record among idx (first inserted wins a tie)
Nearest(recs, idx, qvec) ==
  CHOOSE k \in idx :
    \A j \in idx :
      \/ Distance(recs[k].vector, qvec) < Distance(recs[j].vector, qvec)
      \/ Distance(recs[k].vector, qvec) = Distance(recs[j].vector, qvec) /\ k <= j

RECURSIVE TopK(_, _, _, _)
TopK(recs, idx, qvec, limit) ==
  IF limit <= 0 \/ idx = {} THEN <<>>
  ELSE LET k == Nearest(recs, idx, qvec)
       IN <<Hit(recs[k], qvec)>> \o TopK(recs, idx \ {k}, qvec, limit - 1)

\* one result list per query vector: at most limit hits by increasing distance
StoreSearch(recs, data, limit) ==
  [q \in 1..Len(data) |-> TopK(recs, 1..Len(recs), data[q], limit)]

SearchAccepts(cols, name, vector) ==
  /\ HasCollection(cols, name)
  /\ vector.len = CollectionDimension(cols, name)

\* ------------------------------------------------------------------ facade
NeedsCreate_Always(cols) == TRUE

\* _initialize_collection: return early when the collection already exists
NeedsCreate(cols) == ~HasCollection(cols, COLLECTION_NAME)

CollectionsAfterInit_Recreate(cols) ==
  <<[name |-> COLLECTION_NAME, dimension |-> DIMENSION]>>

\* _initialize_collection: an existing collection is kept as it is, a missing
\* one is created with DIMENSION
CollectionsAfterInit(cols) ==
  IF NeedsCreate(cols) THEN CreateCollection(cols, COLLECTION_NAME, DIMENSION) ELSE cols

Search_IgnoreLimit(recs, query, limit) ==
  StoreSearch(recs, <<GetEmbedding(query)>>, Len(recs))[1]

\* search: embed the query, ask the store, return the first query's results
Search(recs, query, limit) == StoreSearch(recs, <<GetEmbedding(query)>>, limit)[1]

\* ------------------------------------------------------------------ driver
\* round-half-even of n/10 for n >= 0
RoundTenth(n) ==
  LET q == n \div 10
      r == n % 10
  IN IF r < 5 THEN q
     ELSE IF r > 5 THEN q + 1
     ELSE IF q % 2 = 0 THEN q ELSE q + 1

\* the ".4f" format: a value in units of 10^-5 printed in units of 10^-4
Format4(x) == IF x >= 0 THEN RoundTenth(x) ELSE 0 - RoundTenth(0 - x)

PrintHit_NoNegation(result) ==
  [score |-> Format4(result.distance), text |-> result.entity.text]

\* main(): print(f"Score: {-result['distance']:.4f}"); print(f"Text: ...")
PrintHit(result) ==
  [score |-> Format4(0 - result.distance), text |-> result.entity.text]

PrintResults(results) == [k \in 1..Len(results) |-> PrintHit(results[k])]

\* ------------------------------------------------------------------- state
VARIABLES
  collections,   \* store: sequence of [name, dimension]
  records,       \* store: records of COLLECTION_NAME, in insertion order
  caller,        \* who uses the facade: "main" (the driver) or "client"
  facade,        \* "Uninitialized" or "Ready"
  pc,            \* "start", "constructed", "add", "prompt", "done", "crashed"
  docs,          \* argument of the running add_documents call
  docIndex,      \* position of add_documents in docs
  entryRecords,  \* records as they were when add_documents was entered
  addedMsg,      \* "Added n documents to the index" was printed by the last call
  line,          \* last line read by input()
  searchArgs,    \* arguments of the last search call: <<[query, limit]>> or <<>>
  storeReply,    \* what the store returned to the last search
  results,       \* what search returned to its caller
  printed,       \* the score/text pairs printed for the last search
  issued,        \* external requests issued by the last step, in order
  error,         \* the exception that ended the run, "none" otherwise
  failedIn,      \* where it was raised: "none", "init", "add_documents", "search"
  runs,          \* number of runs started
  turns          \* lines read (main) or calls made (client) in this run

vars ==
  <<collections, records, caller, facade, pc, docs, docIndex, entryRecords, addedMsg,
    line, searchArgs, storeReply, results, printed, issued, error, failedIn, runs, turns>>

storeVars == <<collections, records>>
addVars == <<docs, docIndex, entryRecords, addedMsg>>
searchVars == <<line, searchArgs, storeReply, results, printed>>

\* The store outlives the process: at the first run the collection is absent, or
\* a collection of that name with another dimension is already there.
InitWith(who) ==
  /\ collections \in
       { <<>>, <<[name |-> COLLECTION_NAME, dimension |-> ForeignDimension]>> }
  /\ records = <<>>
  /\ caller = who
  /\ facade = "Uninitialized"
  /\ pc = "start"
  /\ docs = <<>>
  /\ docIndex = 1
  /\ entryRecords = <<>>
  /\ addedMsg = FALSE
  /\ line = <<>>
  /\ searchArgs = <<>>
  /\ storeReply = <<>>
  /\ results = <<>>
  /\ printed = <<>>
  /\ issued = <<>>
  /\ error = "none"
  /\ failedIn = "none"
  /\ runs = 1
  /\ turns = 0

Init == InitWith("main")

InitFacade == InitWith("client")

\* ------------------------------------------------------ SemanticSearch()
AfterInitFailure_Swallowed == [pc |-> "constructed", facade |-> "Ready"]

\* an exception in __init__ leaves the caller without a facade object
AfterInitFailure == [pc |-> "crashed", facade |-> "Uninitialized"]

InitFails(requests) ==
  /\ issued' = requests
  /\ pc' = AfterInitFailure.pc
  /\ facade' = AfterInitFailure.facade
  /\ error' = IF AfterInitFailure.pc = "crashed" THEN "StoreUnavailable" ELSE error
  /\ failedIn' = IF AfterInitFailure.pc = "crashed" THEN "init" ELSE failedIn
  /\ UNCHANGED <<storeVars, caller, addVars, searchVars, runs, turns>>

InitSucceeds(requests) ==
  /\ issued' = requests
  /\ facade' = "Ready"
  /\ pc' = "constructed"
  /\ UNCHANGED <<records, caller, addVars, searchVars, error, failedIn, runs, turns>>

\* has_collection raises
ConstructHasCollectionFails ==
  /\ pc = "start"
  /\ InitFails(<<"has_collection">>)

\* has_collection is true: "already exists", return
ConstructExisting ==
  /\ pc = "start"
  /\ ~NeedsCreate(collections)
  /\ InitSucceeds(<<"has_collection">>)
  /\ collections' = CollectionsAfterInit(collections)

\* create_collection raises
ConstructCreateFails ==
  /\ pc = "start"
  /\ NeedsCreate(collections)
  /\ InitFails(<<"has_collection", "create_collection">>)

\* create_collection(COLLECTION_NAME, DIMENSION)
ConstructCreates ==
  /\ pc = "start"
  /\ NeedsCreate(collections)
  /\ InitSucceeds(<<"has_collection", "create_collection">>)
  /\ collections' = CollectionsAfterInit(collections)

\* ---------------------------------------------------------- add_documents
EnterAddDocuments(d) ==
  /\ pc' = "add"
  /\ docs' = d
  /\ docIndex' = 1
  /\ entryRecords' = records
  /\ addedMsg' = FALSE
  /\ issued' = <<>>
  /\ UNCHANGED <<storeVars, caller, facade, searchVars, error, failedIn, runs>>

\* main(): search_engine.add_documents(documents)
MainAddDocuments ==
  /\ pc = "constructed"
  /\ EnterAddDocuments(documents)
  /\ UNCHANGED turns

AfterAddFailure_Swallowed(n) == [pc |-> "add", docIndex |-> n + 1]

\* no try/except in the loop: the exception leaves add_documents and its caller
AfterAddFailure(n) == [pc |-> "crashed", docIndex |-> n]

AddFails(requests, err) ==
  /\ issued' = requests
  /\ pc' = AfterAddFailure(docIndex).pc
  /\ docIndex' = AfterAddFailure(docIndex).docIndex
  /\ error' = IF AfterAddFailure(docIndex).pc = "crashed" THEN err ELSE error
  /\ failedIn' = IF AfterAddFailure(docIndex).pc = "crashed" THEN "add_documents" ELSE failedIn
  /\ UNCHANGED <<storeVars, caller, facade, docs, entryRecords, addedMsg, searchVars,
                 runs, turns>>

\* _get_embedding(doc["text"]) raises
AddDocEmbedFails ==
  /\ pc = "add"
  /\ docIndex <= Len(docs)
  /\ AddFails(<<"embed">>, "ProviderUnavailable")

\* milvus_client.insert raises
AddDocInsertFails ==
  /\ pc = "add"
  /\ docIndex <= Len(docs)
  /\ AddFails(<<"embed", "insert">>,
              IF InsertAccepts(collections, COLLECTION_NAME, GetEmbedding(docs[docIndex].text))
              THEN "StoreUnavailable" ELSE "DimensionMismatch")

\* embed the document and insert {id, vector, text}
AddDocInserts ==
  /\ pc = "add"
  /\ docIndex <= Len(docs)
  /\ InsertAccepts(collections, COLLECTION_NAME, GetEmbedding(docs[docIndex].text))
  /\ records' = Insert(records, [id |-> docs[docIndex].id,
                                 vector |-> GetEmbedding(docs[docIndex].text),
                                 text |-> docs[docIndex].text])
  /\ docIndex' = docIndex + 1
  /\ issued' = <<"embed", "insert">>
  /\ UNCHANGED <<collections, caller, facade, pc, docs, entryRecords, addedMsg, searchVars,
                 error, failedIn, runs, turns>>

\* print(f"Added {len(documents)} documents to the index") and return:
\* main() enters its loop, a client gets control back
AddDocumentsReturns ==
  /\ pc = "add"
  /\ docIndex > Len(docs)
  /\ addedMsg' = TRUE
  /\ pc' = IF caller = "main" THEN "prompt" ELSE "constructed"
  /\ issued' = <<>>
  /\ UNCHANGED <<storeVars, caller, facade, docs, docIndex, entryRecords, searchVars,
                 error, failedIn, runs, turns>>

\* ------------------------------------------------------------------ search
SearchFails(args, requests, err) ==
  /\ searchArgs' = <<args>>
  /\ issued' = requests
  /\ pc' = "crashed"
  /\ error' = err
  /\ failedIn' = "search"
  /\ turns' = turns + 1
  /\ UNCHANGED <<storeVars, caller, facade, addVars, storeReply, results, printed, runs>>

SearchReturns(args) ==
  /\ SearchAccepts(collections, COLLECTION_NAME, GetEmbedding(args.query))
  /\ searchArgs' = <<args>>
  /\ storeReply' = StoreSearch(records, <<GetEmbedding(args.query)>>, args.limit)
  /\ results' = Search(records, args.query, args.limit)
  /\ issued' = <<"embed", "search">>
  /\ turns' = turns + 1
  /\ UNCHANGED <<storeVars, caller, facade, pc, addVars, error, failedIn, runs>>

\* ------------------------------------------------------- main(): the loop
\* quit, exit or q: break
InputQuit ==
  /\ pc = "prompt"
  /\ \E ln \in Inputs :
       /\ IsQuit(Strip(ln))
       /\ line' = ln
  /\ pc' = "done"
  /\ issued' = <<>>
  /\ UNCHANGED <<storeVars, caller, facade, addVars, searchArgs, storeReply, results,
                 printed, error, failedIn, runs, turns>>

\* empty line: continue
InputEmpty ==
  /\ pc = "prompt"
  /\ turns < MaxTurns
  /\ \E ln \in Inputs :
       /\ ~IsQuit(Strip(ln))
       /\ IsEmpty(Strip(ln))
       /\ line' = ln
  /\ turns' = turns + 1
  /\ issued' = <<>>
  /\ UNCHANGED <<storeVars, caller, facade, pc, addVars, searchArgs, storeReply, results,
                 printed, error, failedIn, runs>>

IsSearchInput(ln) == ~IsQuit(Strip(ln)) /\ ~IsEmpty(Strip(ln))

\* main(): search_engine.search(query, limit=2)
DriverArgs(ln) == [query |-> Strip(ln), limit |-> DriverLimit]

\* the embedding call of the query raises
InputSearchEmbedFails ==
  /\ pc = "prompt"
  /\ turns < MaxTurns
  /\ \E ln \in Inputs :
       /\ IsSearchInput(ln)
       /\ line' = ln
       /\ SearchFails(DriverArgs(ln), <<"embed">>, "ProviderUnavailable")

\* milvus_client.search raises
InputSearchStoreFails ==
  /\ pc = "prompt"
  /\ turns < MaxTurns
  /\ \E ln \in Inputs :
       /\ IsSearchInput(ln)
       /\ line' = ln
       /\ SearchFails(DriverArgs(ln), <<"embed", "search">>, "StoreUnavailable")

\* search returns and the driver prints every hit
InputSearchPrints ==
  /\ pc = "prompt"
  /\ turns < MaxTurns
  /\ \E ln \in Inputs :
       /\ IsSearchInput(ln)
       /\ line' = ln
       /\ SearchReturns(DriverArgs(ln))
       /\ printed' = PrintResults(Search(records, Strip(ln), DriverLimit))

\* the script is started again against the same store
Rerun ==
  /\ pc \in {"done", "crashed"}
  /\ runs < MaxRuns
  /\ runs' = runs + 1
  /\ pc' = "start"
  /\ facade' = "Uninitialized"
  /\ docs' = <<>>
  /\ docIndex' = 1
  /\ entryRecords' = <<>>
  /\ addedMsg' = FALSE
  /\ line' = <<>>
  /\ searchArgs' = <<>>
  /\ storeReply' = <<>>
  /\ results' = <<>>
  /\ printed' = <<>>
  /\ issued' = <<>>
  /\ error' = "none"
  /\ failedIn' = "none"
  /\ turns' = 0
  /\ UNCHANGED <<storeVars, caller>>

Next ==
  \/ ConstructHasCollectionFails
  \/ ConstructExisting
  \/ ConstructCreateFails
  \/ ConstructCreates
  \/ MainAddDocuments
  \/ AddDocEmbedFails
  \/ AddDocInsertFails
  \/ AddDocInserts
  \/ AddDocumentsReturns
  \/ InputQuit
  \/ InputEmpty
  \/ InputSearchEmbedFails
  \/ InputSearchStoreFails
  \/ InputSearchPrints
  \/ Rerun

Spec == Init /\ [][Next]_vars

\* ----------------------------------- a client calling the facade directly
\* add_documents(d)
ClientAddDocuments ==
  /\ pc = "constructed"
  /\ turns < MaxTurns
  /\ \E d \in DocLists : EnterAddDocuments(d)
  /\ turns' = turns + 1

\* search(query, limit): the embedding call raises
ClientSearchEmbedFails ==
  /\ pc = "constructed"
  /\ turns < MaxTurns
  /\ \E q \in Queries, k \in 1..MaxLimit :
       SearchFails([query |-> q, limit |-> k], <<"embed">>, "ProviderUnavailable")
  /\ UNCHANGED line

\* search(query, limit): milvus_client.search raises
ClientSearchStoreFails ==
  /\ pc = "constructed"
  /\ turns < MaxTurns
  /\ \E q \in Queries, k \in 1..MaxLimit :
       SearchFails([query |-> q, limit |-> k], <<"embed", "search">>, "StoreUnavailable")
  /\ UNCHANGED line

\* search(query, limit) returns results[0]
ClientSearchReturns ==
  /\ pc = "constructed"
  /\ turns < MaxTurns
  /\ \E q \in Queries, k \in 1..MaxLimit : SearchReturns([query |-> q, limit |-> k])
  /\ UNCHANGED <<line, printed>>

NextFacade ==
  \/ ConstructHasCollectionFails
  \/ ConstructExisting
  \/ ConstructCreateFails
  \/ ConstructCreates
  \/ ClientAddDocuments
  \/ AddDocEmbedFails
  \/ AddDocInsertFails
  \/ AddDocInserts
  \/ AddDocumentsReturns
  \/ ClientSearchEmbedFails
  \/ ClientSearchStoreFails
  \/ ClientSearchReturns

SpecFacade == InitFacade /\ [][NextFacade]_vars

\* ------------------------------------------------------------- properties
Contains(seq, x) == \E k \in 1..Len(seq) : seq[k] = x

NamedCount(cols, name) == Cardinality({k \in 1..Len(cols) : cols[k].name = name})

\* the records add_documents has stored once it is past the first n documents
StoredPrefix(d, n) ==
  [k \in 1..n |-> [id |-> d[k].id, vector |-> GetEmbedding(d[k].text), text |-> d[k].text]]

\* C1: collection creation is idempotent. The store never holds two
\* collections of the name, and a construction that finds the collection
\* present leaves the collections and their records as they are and issues
\* no create_collection request; when it completes it raised no error.
C1_IdempotentCreation ==
  /\ [](NamedCount(collections, COLLECTION_NAME) <= 1)
  /\ [][(pc = "start" /\ HasCollection(collections, COLLECTION_NAME))
          => /\ collections' = collections
             /\ records' = records
             /\ ~Contains(issued', "create_collection")
             /\ (issued' = <<"has_collection">> /\ pc' = "constructed" => error' = "none")]_vars

\* a second run found the collection the first run created
C1_Witness ==
  /\ runs >= 2
  /\ pc = "constructed"
  /\ facade = "Ready"
  /\ issued = <<"has_collection">>
  /\ collections = <<[name |-> COLLECTION_NAME, dimension |-> DIMENSION]>>

InAddDocuments == pc = "add" \/ (pc = "crashed" /\ failedIn = "add_documents")

\* C2: add_documents is prefix-preserving on failure. While the call runs and
\* after it has failed on document k, the store holds what it held on entry
\* followed by exactly documents 1..k-1 of the list; a failed call raised an
\* error to its caller and printed no success message, and the success
\* message is printed only after every document of the list was inserted.
C2_PrefixOnFailure ==
  /\ InAddDocuments => records = entryRecords \o StoredPrefix(docs, docIndex - 1)
  /\ (pc = "crashed" /\ failedIn = "add_documents")
       => /\ docIndex <= Len(docs)
          /\ error # "none"
          /\ ~addedMsg
  /\ addedMsg => Len(records) >= Len(entryRecords) + Len(docs)
  /\ (pc = "add" /\ Contains(issued, "embed")) => Contains(issued, "insert")

\* the embedding call failed on the third of five documents, after earlier ones
C2_Witness ==
  /\ pc = "crashed"
  /\ failedIn = "add_documents"
  /\ error = "ProviderUnavailable"
  /\ Len(docs) = 5
  /\ docIndex = 3
  /\ entryRecords # <<>>
  /\ Len(records) = Len(entryRecords) + 2

\* C3: a collection of the name with another dimension makes construction fail
\* with SchemaConflict: the facade never becomes Ready over such a collection.
C3_SchemaConflict ==
  ~(/\ facade = "Ready"
    /\ HasCollection(collections, COLLECTION_NAME)
    /\ CollectionDimension(collections, COLLECTION_NAME) # DIMENSION)

\* C4: no two stored records share an id, whatever runs came before.
C4_UniqueIds ==
  \A a, b \in 1..Len(records) : a # b => records[a].id # records[b].id

\* C5: every stored record has a vector of the collection's dimension; an
\* insert of a vector of another length fails with DimensionMismatch and
\* leaves the store unchanged; a collection's dimension never changes.
C5_DimensionInvariant ==
  /\ [](\A k \in 1..Len(records) :
          /\ HasCollection(collections, COLLECTION_NAME)
          /\ records[k].vector.len = CollectionDimension(collections, COLLECTION_NAME))
  /\ [][/\ (HasCollection(collections, COLLECTION_NAME)
              => /\ HasCollection(collections', COLLECTION_NAME)
                 /\ CollectionDimension(collections', COLLECTION_NAME)
                      = CollectionDimension(collections, COLLECTION_NAME))
        /\ (/\ pc = "add"
            /\ Contains(issued', "insert")
            /\ HasCollection(collections, COLLECTION_NAME)
            /\ GetEmbedding(docs[docIndex].text).len
                 # CollectionDimension(collections, COLLECTION_NAME))
              => /\ records' = records
                 /\ collections' = collections
                 /\ error' = "DimensionMismatch"]_vars

\* an insert into the collection of the other dimension was refused
C5_Witness ==
  /\ error = "DimensionMismatch"
  /\ issued = <<"embed", "insert">>
  /\ records = <<>>
  /\ CollectionDimension(collections, COLLECTION_NAME) = ForeignDimension

Ascending(hits) ==
  \A k \in 1..Len(hits) - 1 : hits[k].distance <= hits[k + 1].distance

SearchPrinted == searchArgs # <<>> /\ issued = <<"embed", "search">> /\ pc = "prompt"

\* C6 as stated: the printed hits are the store's hits in the store's order,
\* by increasing distance, and every printed score equals -rawDistance.
C6_ExactScore ==
  SearchPrinted =>
    /\ results = storeReply[1]
    /\ Ascending(results)
    /\ Len(printed) = Len(results)
    /\ \A k \in 1..Len(results) :
         /\ printed[k].text = results[k].entity.text
         /\ 10 * printed[k].score = 0 - results[k].distance

\* C6: the printed hits are the store's hits in the store's order, by
\* increasing distance, and every printed score is -rawDistance rounded to
\* four decimal places (at most half a unit of the fourth decimal away).
C6_RoundedScore ==
  SearchPrinted =>
    /\ results = storeReply[1]
    /\ Ascending(results)
    /\ Len(printed) = Len(results)
    /\ \A k \in 1..Len(results) :
         /\ printed[k].text = results[k].entity.text
         /\ 10 * printed[k].score + results[k].distance <= 5
         /\ 10 * printed[k].score + results[k].distance >= 0 - 5

\* two hits at different distances were printed, one not a multiple of 10^-4
C6_Witness ==
  /\ SearchPrinted
  /\ Len(printed) = 2
  /\ results[1].distance < results[2].distance
  /\ results[2].distance % 10 # 0

FromRecords(hit, recs, query) ==
  \E k \in 1..Len(recs) :
    /\ hit.id = recs[k].id
    /\ hit.entity.text = recs[k].text
    /\ hit.distance = Distance(recs[k].vector, GetEmbedding(query))

\* C7: a search that returns, returns at most limit hits, each of them a
\* record of the collection.
C7_LimitBound ==
  [][(issued' = <<"embed", "search">> /\ pc' # "crashed" /\ turns' = turns + 1)
       => /\ Len(results') <= searchArgs'[1].limit
          /\ \A k \in 1..Len(results') :
               FromRecords(results'[k], records, searchArgs'[1].query)]_vars

\* the store held more records than the limit and limit hits came back
C7_Witness ==
  /\ issued = <<"embed", "search">>
  /\ pc = "constructed"
  /\ searchArgs # <<>>
  /\ Len(records) > searchArgs[1].limit
  /\ Len(results) = searchArgs[1].limit
  /\ searchArgs[1].limit >= 2

\* C8: a query whose embedding or store call fails is reported and the driver
\* prompts for the next query.
C8_ReportAndContinue ==
  [][(pc = "prompt" /\ failedIn' = "search") => pc' = "prompt"]_vars

\* C9: inserts and searches are issued only by a Ready facade over an existing
\* collection; the facade becomes Ready only by a construction that completed
\* without error, and a failed construction leaves no facade and is followed
\* by no add_documents or search call.
C9_ReadyBeforeUse ==
  /\ [](facade = "Ready" => HasCollection(collections, COLLECTION_NAME))
  /\ [](pc \in {"constructed", "add", "prompt", "done"} => facade = "Ready")
  /\ [](failedIn = "init" => facade = "Uninitialized" /\ pc = "crashed")
  /\ [][/\ (Contains(issued', "insert") \/ Contains(issued', "search"))
             => facade = "Ready" /\ HasCollection(collections, COLLECTION_NAME)
        /\ (facade = "Uninitialized" /\ facade' = "Ready")
             => /\ pc = "start"
                /\ Head(issued') = "has_collection"
                /\ error' = "none"
                /\ HasCollection(collections', COLLECTION_NAME)
        /\ failedIn = "init" => pc' = "start" /\ facade' = "Uninitialized"]_vars

\* create_collection failed: no collection, no facade, the run is over
C9_Witness ==
  /\ failedIn = "init"
  /\ pc = "crashed"
  /\ issued = <<"has_collection", "create_collection">>
  /\ ~HasCollection(collections, COLLECTION_NAME)

\* the line is quit, exit or q in some letter case, once stripped
QuitCommand(ln) == [k \in 1..Len(Strip(ln)) |-> LowerChar(Strip(ln)[k])] \in QuitWords

\* C10: at the prompt, a quit command ends the loop and the run normally with
\* no embed or search call; a blank line issues no call and prompts again;
\* any other line makes exactly one search(query, limit=2) call with the
\* stripped line; the loop is left normally only by a quit command.
C10_CommandLoop ==
  [][pc = "prompt" =>
       IF QuitCommand(line')
         THEN pc' = "done" /\ issued' = <<>> /\ error' = "none" /\ searchArgs' = searchArgs
       ELSE IF Strip(line') = <<>>
         THEN pc' = "prompt" /\ issued' = <<>> /\ error' = "none" /\ searchArgs' = searchArgs
       ELSE /\ pc' # "done"
            /\ searchArgs' = <<[query |-> Strip(line'), limit |-> 2]>>
            /\ issued' \in {<<"embed">>, <<"embed", "search">>}]_vars

\* an upper-case, padded "EXIT " ended the loop
C10_Witness ==
  /\ pc = "done"
  /\ line = <<"E", "X", "I", "T", " ">>
  /\ error = "none"
====
